---- MODULE Spec2Model ----
(***************************************************************************)
(* Client-side session / authorization flow of product-frontend:           *)
(* storage.util (localStorage wrapper), AuthRepository, AuthService,       *)
(* authGuard, AuthInterceptor, the route table and the three               *)
(* LoginComponent variants found in the repository.                        *)
(*                                                                         *)
(* Strings whose content matters (tokens, profile fields, stored JSON,     *)
(* header values) are sequences of one-character strings.  A value that    *)
(* may be null/undefined is an option: None (<<>>) or Some(v) (<<v>>).     *)
(***************************************************************************)
EXTENDS Integers, Sequences, FiniteSets, TLC

VARIABLES
  variant,      \* which LoginComponent of the repository is mounted by the routes
  localStorage, \* browser storage: [auth_token, user_data], each an option of a
                \* string, and whether the browser denies access to it (disabled)
  location,     \* router state: [view, returnUrl]
  username,     \* LoginComponent.username (email in the earlier variant)
  password,     \* LoginComponent.password
  isLoading,    \* LoginComponent.isLoading
  errorMessage, \* LoginComponent.errorMessage
  inflight,     \* login requests sent and not yet answered, in sending order
  guardLog,     \* outcome of the most recent authGuard run (observation only)
  calls,        \* how often AuthService.login was invoked (login) and how often
                \* the POST /auth/login was sent (post) (observation only)
  session,      \* token of the last successful login not yet followed by a
                \* logout (observation only)
  last          \* record of the last operation performed (observation only)

vars == <<variant, localStorage, location, username, password, isLoading,
          errorMessage, inflight, guardLog, calls, session, last>>

(***************************************************************************)
(* Bounds                                                                  *)
(***************************************************************************)
MaxInFlight == 2
\* AuthService.login invocations followed
MaxLogins == 2

(***************************************************************************)
(* Options and JavaScript truthiness                                       *)
(***************************************************************************)
None == <<>>
Some(v) == <<v>>
IsSome(o) == o # None
Val(o) == o[1]

\* !!x, `if (x)`, `x ? a : b`, `!x` for x : string | null
Truthy(o) == IsSome(o) /\ Val(o) # <<>>

(***************************************************************************)
(* JSON.stringify / JSON.parse on flat objects with string members         *)
(***************************************************************************)
QUOTE == "\""
BSLASH == "\\"

KeyUsername == <<"u", "s", "e", "r", "n", "a", "m", "e">>
KeyNome == <<"n", "o", "m", "e">>

RECURSIVE JSON_escape(_)
JSON_escape(s) ==
  IF s = <<>> THEN <<>>
  ELSE (IF Head(s) \in {QUOTE, BSLASH} THEN <<BSLASH, Head(s)>> ELSE <<Head(s)>>)
       \o JSON_escape(Tail(s))

JSON_quote(s) == <<QUOTE>> \o JSON_escape(s) \o <<QUOTE>>

\* JSON.stringify({ username, nome })
JSON_stringify(userData) ==
  <<"{">> \o JSON_quote(KeyUsername) \o <<":">> \o JSON_quote(userData.username)
  \o <<",">> \o JSON_quote(KeyNome) \o <<":">> \o JSON_quote(userData.nome)
  \o <<"}">>

ParseFail == [ok |-> FALSE]

\* reads a string literal whose opening quote is at position i - 1
RECURSIVE JSON_scanString(_, _, _)
JSON_scanString(d, i, acc) ==
  IF i > Len(d) THEN ParseFail
  ELSE IF d[i] = QUOTE THEN [ok |-> TRUE, val |-> acc, next |-> i + 1]
  ELSE IF d[i] = BSLASH
       THEN IF i + 1 > Len(d) \/ d[i + 1] \notin {QUOTE, BSLASH} THEN ParseFail
            ELSE JSON_scanString(d, i + 2, Append(acc, d[i + 1]))
  ELSE JSON_scanString(d, i + 1, Append(acc, d[i]))

JSON_string(d, i) ==
  IF i > Len(d) \/ d[i] # QUOTE THEN ParseFail ELSE JSON_scanString(d, i + 1, <<>>)

\* obj[key] = val on a JavaScript object: a later member replaces an earlier one
JSON_put(obj, key, val) == {m \in obj : m[1] # key} \cup {<<key, val>>}

\* reads  "key":"value"  pairs from position i up to the closing brace;
\* an object is the set of its <<key, value>> members
RECURSIVE JSON_members(_, _, _)
JSON_members(d, i, obj) ==
  LET k == JSON_string(d, i) IN
  IF ~k.ok THEN ParseFail
  ELSE IF k.next > Len(d) \/ d[k.next] # ":" THEN ParseFail
  ELSE LET v == JSON_string(d, k.next + 1) IN
       IF ~v.ok THEN ParseFail
       ELSE LET obj2 == JSON_put(obj, k.val, v.val) IN
            IF v.next > Len(d) THEN ParseFail
            ELSE IF d[v.next] = "}"
                 THEN (IF v.next = Len(d) THEN [ok |-> TRUE, val |-> obj2] ELSE ParseFail)
            ELSE IF d[v.next] = ","
                 THEN JSON_members(d, v.next + 1, obj2)
            ELSE ParseFail

\* JSON.parse(data): [ok |-> TRUE, val |-> object] or a SyntaxError
JSON_parse(d) ==
  IF Len(d) < 2 \/ d[1] # "{" THEN ParseFail
  ELSE IF d = <<"{", "}">> THEN [ok |-> TRUE, val |-> {}]
  ELSE JSON_members(d, 2, {})

\* obj.key of a parsed object: undefined when the member is missing
Prop(obj, key) ==
  IF \E m \in obj : m[1] = key THEN Some((CHOOSE m \in obj : m[1] = key)[2]) ELSE None

(***************************************************************************)
(* storage.util                                                            *)
(***************************************************************************)
saveToken(ls, token) == [ls EXCEPT !.auth_token = Some(token)]

getToken(ls) == ls.auth_token

removeToken(ls) == [ls EXCEPT !.auth_token = None]

isAuthenticated(ls) == Truthy(getToken(ls))

saveUser(ls, u, n) ==
  LET userData == [username |-> u, nome |-> n] IN
  [ls EXCEPT !.user_data = Some(JSON_stringify(userData))]

\* data ? JSON.parse(data) : null   (the stored strings are those saveUser wrote)
getUser(ls) ==
  LET data == ls.user_data IN
  IF Truthy(data) THEN Some(JSON_parse(Val(data)).val) ELSE None

removeUser(ls) == [ls EXCEPT !.user_data = None]

(***************************************************************************)
(* AuthService (synchronous members)                                       *)
(***************************************************************************)
\* variant of logout that forgets removeUser()
AuthService_logout_tokenOnly(ls) == removeToken(ls)

\* variant of logout that forgets the profile and keeps the token
AuthService_logout_profileOnly(ls) == removeUser(ls)

AuthService_logout(ls) == removeUser(removeToken(ls))

AuthService_isAuthenticated(ls) == Truthy(getToken(ls))

AuthService_getToken(ls) == getToken(ls)

AuthService_getCurrentUser(ls) == getUser(ls)

(***************************************************************************)
(* AuthRepository: the requests it hands to HttpClient                     *)
(***************************************************************************)
NoHeaders == {}

\* http.post(`${apiUrl}/auth/login`, credentials)
AuthRepository_login(credentials) ==
  [method |-> "POST", url |-> "/auth/login", body |-> Some(credentials),
   headers |-> NoHeaders]

\* http.post(`${apiUrl}/auth/logout`, {})
AuthRepository_logout ==
  [method |-> "POST", url |-> "/auth/logout", body |-> None, headers |-> NoHeaders]

(***************************************************************************)
(* AuthInterceptor                                                         *)
(***************************************************************************)
Bearer == <<"B", "e", "a", "r", "e", "r", " ">>

\* HttpHeaders is a set of <<name, value>>; set() returns a new collection
HttpHeaders_set(headers, name, value) ==
  {h \in headers : h[1] # name} \cup {<<name, value>>}

HttpHeaders_has(headers, name) == \E h \in headers : h[1] = name

HttpHeaders_get(headers, name) ==
  IF HttpHeaders_has(headers, name)
  THEN Some((CHOOSE h \in headers : h[1] = name)[2]) ELSE None

\* req.clone({ headers }) builds a new request object
HttpRequest_clone(req, headers) == [req EXCEPT !.headers = headers]

\* variant of intercept that sets the header on the request it was given
AuthInterceptor_intercept_inPlace(req, ls) ==
  LET token == getToken(ls) IN
  IF Truthy(token)
  THEN LET mutated ==
             [req EXCEPT !.headers =
                HttpHeaders_set(req.headers, "Authorization", Bearer \o Val(token))]
       IN [req |-> mutated, handled |-> mutated]
  ELSE [req |-> req, handled |-> req]

\* intercept(req, next): `req` is the object the caller passed, as it is when
\* intercept returns; `handled` is the object given to next.handle
AuthInterceptor_intercept(req, ls) ==
  LET token == getToken(ls) IN
  IF Truthy(token)
  THEN LET clonedRequest ==
             HttpRequest_clone(req,
               HttpHeaders_set(req.headers, "Authorization", Bearer \o Val(token)))
       IN [req |-> req, handled |-> clonedRequest]
  ELSE [req |-> req, handled |-> req]

(***************************************************************************)
(* Route table and authGuard                                               *)
(***************************************************************************)
LoginUrl == <<"login">>
DashboardUrl == <<"dashboard">>

\* the URLs a navigation may ask for: '', the two routed paths, two unmatched ones
Urls == {<<>>, LoginUrl, DashboardUrl, <<"products">>, <<"dashboard", "x">>}

\* variant of the route table whose last entry redirects to the dashboard
routes_wildcardToDashboard(url) ==
  IF url = <<>> THEN [kind |-> "redirect", redirectTo |-> LoginUrl]
  ELSE IF url = LoginUrl
       THEN [kind |-> "component", view |-> "login", canActivate |-> FALSE]
  ELSE IF url = DashboardUrl
       THEN [kind |-> "component", view |-> "dashboard", canActivate |-> TRUE]
  ELSE [kind |-> "redirect", redirectTo |-> DashboardUrl]

\* first match in `routes`, children included
routes(url) ==
  IF url = <<>> THEN [kind |-> "redirect", redirectTo |-> LoginUrl]
  ELSE IF url = LoginUrl
       THEN [kind |-> "component", view |-> "login", canActivate |-> FALSE]
  ELSE IF url = DashboardUrl
       THEN [kind |-> "component", view |-> "dashboard", canActivate |-> TRUE]
  ELSE [kind |-> "redirect", redirectTo |-> LoginUrl]

\* variant of authGuard that keeps letting in once it has let in
authGuard_cachedDecision(ls, stateUrl) ==
  IF guardLog = "allowed" \/ AuthService_isAuthenticated(ls)
  THEN [allow |-> TRUE]
  ELSE [allow |-> FALSE,
        navigate |-> [commands |-> LoginUrl, returnUrl |-> Some(stateUrl)]]

\* variant of authGuard that navigates to /login without queryParams
authGuard_noReturnUrl(ls, stateUrl) ==
  IF AuthService_isAuthenticated(ls)
  THEN [allow |-> TRUE]
  ELSE [allow |-> FALSE, navigate |-> [commands |-> LoginUrl, returnUrl |-> None]]

\* variant of authGuard that lets every navigation in
authGuard_allowsAll(ls, stateUrl) == [allow |-> TRUE]

\* authGuard(route, state): true, or false after router.navigate(['/login'], ...)
authGuard(ls, stateUrl) ==
  IF AuthService_isAuthenticated(ls)
  THEN [allow |-> TRUE]
  ELSE [allow |-> FALSE,
        navigate |-> [commands |-> LoginUrl, returnUrl |-> Some(stateUrl)]]

\* one navigation, from the requested URL to the location the router settles on
Router_navigate(url, ls) ==
  LET r0 == routes(url)
      stateUrl == IF r0.kind = "redirect" THEN r0.redirectTo ELSE url
      r == routes(stateUrl)
  IN IF r.canActivate
     THEN LET g == authGuard(ls, stateUrl) IN
          IF g.allow
          THEN [location |-> [view |-> r.view, url |-> stateUrl, returnUrl |-> None],
                requested |-> url, guarded |-> TRUE, allowed |-> TRUE]
          ELSE [location |-> [view |-> routes(g.navigate.commands).view,
                              url |-> g.navigate.commands,
                              returnUrl |-> g.navigate.returnUrl],
                requested |-> url, guarded |-> TRUE, allowed |-> FALSE]
     ELSE [location |-> [view |-> r.view, url |-> stateUrl, returnUrl |-> None],
           requested |-> url, guarded |-> FALSE, allowed |-> TRUE]

(***************************************************************************)
(* AuthService.login: the two continuations of the piped observable        *)
(***************************************************************************)
\* tap(response => { saveToken(response.token); saveUser(response.username, response.nome) })
\* variant of the tap that stores the token and forgets the profile
AuthService_login_tap_tokenOnly(ls, response) == saveToken(ls, response.token)

\* variant of the tap that keeps a session that is already stored
AuthService_login_tap_keepsFirst(ls, response) ==
  IF IsSome(getToken(ls)) THEN ls
  ELSE saveUser(saveToken(ls, response.token), response.username, response.nome)

\* variant of the tap that stores what the form holds as the profile
AuthService_login_tap_storesForm(ls, response) ==
  saveUser(saveToken(ls, response.token), username, password)

AuthService_login_tap(ls, response) ==
  saveUser(saveToken(ls, response.token), response.username, response.nome)

\* variant of the error continuation that ends the stored session
AuthService_login_error_clearsStore(ls, error) ==
  [localStorage |-> removeUser(removeToken(ls)), error |-> error]

\* variant of the error continuation with a catchError that rewrites the message
AuthService_login_error_translated(ls, error) ==
  [localStorage |-> ls,
   error |-> [error EXCEPT !.message = "Erro ao fazer login. Verifique suas credenciais."]]

\* the error continuation: tap does not run and the pipe has no catchError, so
\* the Store is not touched and the subscriber receives the repository's error
AuthService_login_error(ls, error) == [localStorage |-> ls, error |-> error]

(***************************************************************************)
(* Inputs                                                                  *)
(***************************************************************************)
Variants == {"unsubscribed", "noRouter", "router"}

Tokens == {<<>>, <<"t">>, <<"u">>}
\* { username, nome } pairs the endpoint knows; one needs JSON escaping
Profiles ==
  { [username |-> <<"a">>, nome |-> <<"A">>],
    [username |-> <<"b", QUOTE>>, nome |-> <<BSLASH, "B">>] }

\* bodies of a 200 answer of POST /auth/login
Responses ==
  {[username |-> p.username, nome |-> p.nome, token |-> t] : p \in Profiles, t \in Tokens}

\* what the user can have typed in the identifier field
FieldValues == {<<>>, <<"a">>}
\* what the user can have typed in the secret field
Secrets == {<<>>, <<"S">>}

\* failures of the POST as HttpClient reports them (HttpErrorResponse)
HttpErrorResponses ==
  { [status |-> 401,
     message |-> "Http failure response for http://localhost:8080/auth/login: 401 Unauthorized"],
    [status |-> 0,
     message |-> "Http failure response for http://localhost:8080/auth/login: 0 Unknown Error"] }

\* localStorage outlives the page: at start-up it holds whatever an earlier
\* session, the user or another script of the origin left under the two keys
StoredTokens == {None} \cup {Some(t) : t \in Tokens}
StoredUsers ==
  {None} \cup {Some(JSON_stringify(p)) : p \in Profiles}

(***************************************************************************)
(* LoginComponent                                                          *)
(***************************************************************************)
NoLocation == [view |-> "none", url |-> <<>>, returnUrl |-> None]

\* variant of the error text that shows nothing
LoginComponent_errorText_blank(v, error) == ""

\* error.message || '<fallback>'
LoginComponent_errorText(v, error) ==
  IF error.message # "" THEN error.message
  ELSE IF v = "router" THEN "Erro ao fazer login. Verifique suas credenciais."
  ELSE "Erro ao fazer login"

\* !this.username || !this.password
LoginComponent_invalid(u, p) == ~Truthy(Some(u)) \/ ~Truthy(Some(p))

\* leaving the login view destroys the component (its subscriptions stay);
\* entering it builds a new one with the declared initial field values
Remount(newLocation) ==
  IF location.view = "login" /\ newLocation.view = "login"
  THEN UNCHANGED <<username, password, isLoading, errorMessage>>
       /\ inflight' = inflight
  ELSE /\ username' = <<>>
       /\ password' = <<>>
       /\ isLoading' = FALSE
       /\ errorMessage' = ""
       /\ inflight' = [i \in DOMAIN inflight |-> [inflight[i] EXCEPT !.live = FALSE]]

\* login.component.html: the submit control is disabled while isLoading
LoginTemplate_submitEnabled == ~isLoading

Drop(seq, i) == SubSeq(seq, 1, i - 1) \o SubSeq(seq, i + 1, Len(seq))

Outcome(n) == IF ~n.guarded THEN guardLog ELSE IF n.allowed THEN "allowed" ELSE "redirected"

(***************************************************************************)
(* Initial state                                                           *)
(***************************************************************************)
Init ==
  /\ variant \in Variants
  /\ localStorage \in [auth_token : StoredTokens, user_data : StoredUsers,
                       disabled : {FALSE}]
  /\ location = NoLocation
  /\ username = <<>>
  /\ password = <<>>
  /\ isLoading = FALSE
  /\ errorMessage = ""
  /\ inflight = <<>>
  /\ guardLog = "none"
  /\ session = None
  /\ calls = [login |-> 0, post |-> 0]
  /\ last = [op |-> "init"]

(***************************************************************************)
(* Operations                                                              *)
(***************************************************************************)
\* the router is asked for a URL (address bar, link, initial navigation)
Navigate(url) ==
  LET n == Router_navigate(url, localStorage) IN
  /\ location' = n.location
  /\ Remount(n.location)
  /\ guardLog' = Outcome(n)
  /\ last' = [op |-> "navigate", nav |-> n, before |-> guardLog]
  /\ UNCHANGED <<calls, session, variant, localStorage>>

\* two-way binding of the form fields
SetUsername(u) ==
  /\ location.view = "login"
  /\ username' = u
  /\ last' = [op |-> "input"]
  /\ UNCHANGED <<calls, session, variant, localStorage, location, password, isLoading, errorMessage,
                 inflight, guardLog>>

SetPassword(p) ==
  /\ location.view = "login"
  /\ password' = p
  /\ last' = [op |-> "input"]
  /\ UNCHANGED <<calls, session, variant, localStorage, location, username, isLoading, errorMessage,
                 inflight, guardLog>>

\* onSubmit() of the variant that calls authService.login and drops the observable
SubmitUnsubscribed ==
  /\ variant = "unsubscribed"
  /\ location.view = "login"
  /\ LoginTemplate_submitEnabled
  /\ calls.login < MaxLogins
  \* the observable login() returns is cold and nobody subscribes: no POST
  /\ calls' = [calls EXCEPT !.login = @ + 1]
  /\ last' = [op |-> "submit", username |-> username, password |-> password,
              loginInvoked |-> TRUE, wire |-> None]
  /\ UNCHANGED <<session, variant, localStorage, location, username, password, isLoading,
                 errorMessage, inflight, guardLog>>

\* onSubmit() of the two validating variants, empty field
SubmitInvalid ==
  /\ variant \in {"noRouter", "router"}
  /\ location.view = "login"
  /\ LoginTemplate_submitEnabled
  /\ LoginComponent_invalid(username, password)
  /\ errorMessage' = "Preencha todos os campos"
  /\ last' = [op |-> "submit", username |-> username, password |-> password,
              loginInvoked |-> FALSE, wire |-> None]
  /\ UNCHANGED <<calls, session, variant, localStorage, location, username, password, isLoading,
                 inflight, guardLog>>

\* variant of the valid submit that does not raise the loading flag
SubmitValid_loadingNotSet ==
  /\ variant \in {"noRouter", "router"}
  /\ location.view = "login"
  /\ LoginTemplate_submitEnabled
  /\ ~LoginComponent_invalid(username, password)
  /\ Len(inflight) < MaxInFlight
  /\ calls.login < MaxLogins
  /\ calls' = [login |-> calls.login + 1, post |-> calls.post + 1]
  /\ errorMessage' = ""
  /\ inflight' = Append(inflight, [live |-> TRUE, username |-> username,
                                   password |-> password])
  /\ last' = [op |-> "submit", username |-> username, password |-> password,
              loginInvoked |-> TRUE,
              request |-> AuthRepository_login([username |-> username, password |-> password]),
              wire |-> Some(AuthInterceptor_intercept(
                         AuthRepository_login([username |-> username, password |-> password]),
                         localStorage))]
  /\ UNCHANGED <<session, variant, localStorage, location, username, password, guardLog,
                 isLoading>>

\* onSubmit() of the two validating variants, both fields filled: the
\* subscription sends the POST through the interceptor
SubmitValid ==
  /\ variant \in {"noRouter", "router"}
  /\ location.view = "login"
  /\ LoginTemplate_submitEnabled
  /\ ~LoginComponent_invalid(username, password)
  /\ Len(inflight) < MaxInFlight
  /\ calls.login < MaxLogins
  /\ calls' = [login |-> calls.login + 1, post |-> calls.post + 1]
  /\ isLoading' = TRUE
  /\ errorMessage' = ""
  /\ inflight' = Append(inflight, [live |-> TRUE, username |-> username,
                                   password |-> password])
  /\ last' = [op |-> "submit", username |-> username, password |-> password,
              loginInvoked |-> TRUE,
              request |-> AuthRepository_login([username |-> username, password |-> password]),
              wire |-> Some(AuthInterceptor_intercept(
                         AuthRepository_login([username |-> username, password |-> password]),
                         localStorage))]
  /\ UNCHANGED <<session, variant, localStorage, location, username, password, guardLog>>

\* 2xx answer to the i-th pending POST: tap, then the subscriber's next handler
LoginNext(i, response) ==
  /\ i \in DOMAIN inflight
  /\ LET ls == AuthService_login_tap(localStorage, response)
         live == inflight[i].live
         \* the answer handled just before this one, if that was a 2xx too
         prev == IF last.op = "loginNext"
                 THEN Some([response |-> last.response, pending |-> last.pending,
                            index |-> last.index])
                 ELSE None
     IN /\ localStorage' = ls
        /\ session' = Some(response.token)
        /\ IF variant = "router"
           THEN LET n == Router_navigate(DashboardUrl, ls) IN
                /\ location' = n.location
                /\ guardLog' = Outcome(n)
                /\ last' = [op |-> "loginNext", response |-> response, live |-> live,
                            nav |-> Some(n), before |-> guardLog,
                            pending |-> Len(inflight), index |-> i, prev |-> prev]
                /\ IF location.view = "login" /\ n.location.view = "login"
                   THEN /\ isLoading' = IF live THEN FALSE ELSE isLoading
                        /\ inflight' = Drop(inflight, i)
                        /\ UNCHANGED <<username, password, errorMessage>>
                   ELSE /\ username' = <<>>
                        /\ password' = <<>>
                        /\ isLoading' = FALSE
                        /\ errorMessage' = ""
                        /\ inflight' = [j \in DOMAIN Drop(inflight, i) |->
                                          [Drop(inflight, i)[j] EXCEPT !.live = FALSE]]
           ELSE /\ isLoading' = IF live THEN FALSE ELSE isLoading
                /\ inflight' = Drop(inflight, i)
                /\ last' = [op |-> "loginNext", response |-> response, live |-> live,
                            nav |-> None, before |-> guardLog,
                            pending |-> Len(inflight), index |-> i, prev |-> prev]
                /\ UNCHANGED <<location, username, password, errorMessage, guardLog>>
  /\ UNCHANGED <<variant, calls>>

\* variant of the error handler that leaves the loading flag raised
LoginError_keepsLoading(i, httpError) ==
  /\ i \in DOMAIN inflight
  /\ LET failed == AuthService_login_error(localStorage, httpError)
         text == LoginComponent_errorText(variant, failed.error)
         live == inflight[i].live
     IN /\ localStorage' = failed.localStorage
        /\ isLoading' = isLoading
        /\ errorMessage' = IF live THEN text ELSE errorMessage
        /\ last' = [op |-> "loginError", cause |-> httpError, error |-> failed.error,
                    text |-> text, live |-> live, before |-> localStorage,
                    submitted |-> inflight[i],
                    view |-> [location |-> location, username |-> username,
                              password |-> password]]
  /\ inflight' = Drop(inflight, i)
  /\ UNCHANGED <<calls, session, variant, location, username, password, guardLog>>

\* failure of the i-th pending POST: the subscriber's error handler
LoginError(i, httpError) ==
  /\ i \in DOMAIN inflight
  /\ LET failed == AuthService_login_error(localStorage, httpError)
         text == LoginComponent_errorText(variant, failed.error)
         live == inflight[i].live
     IN /\ localStorage' = failed.localStorage
        /\ isLoading' = IF live THEN FALSE ELSE isLoading
        /\ errorMessage' = IF live THEN text ELSE errorMessage
        /\ last' = [op |-> "loginError", cause |-> httpError, error |-> failed.error,
                    text |-> text, live |-> live, before |-> localStorage,
                    submitted |-> inflight[i],
                    view |-> [location |-> location, username |-> username,
                              password |-> password]]
  /\ inflight' = Drop(inflight, i)
  /\ UNCHANGED <<calls, session, variant, location, username, password, guardLog>>

\* AuthService.logout()
Logout ==
  /\ localStorage' = AuthService_logout(localStorage)
  /\ last' = [op |-> "logout", before |-> localStorage,
              \* is this logout() called right after another one, and what
              \* did the Store hold before the first of the run
              twice |-> (last.op = "logout"),
              first |-> IF last.op = "logout" THEN last.first ELSE localStorage,
              location |-> location]
  /\ session' = None
  /\ UNCHANGED <<calls, variant, location, username, password, isLoading, errorMessage,
                 inflight, guardLog>>

\* AuthRepository.logout(): a second request that passes the interceptor
LogoutRequest ==
  /\ last' = [op |-> "request", request |-> AuthRepository_logout,
              wire |-> Some(AuthInterceptor_intercept(AuthRepository_logout, localStorage))]
  /\ UNCHANGED <<calls, session, variant, localStorage, location, username, password, isLoading,
                 errorMessage, inflight, guardLog>>

Next ==
  \/ \E url \in Urls : Navigate(url)
  \/ \E u \in FieldValues : SetUsername(u)
  \/ \E p \in Secrets : SetPassword(p)
  \/ SubmitUnsubscribed
  \/ SubmitInvalid
  \/ SubmitValid
  \/ \E i \in 1..MaxInFlight, response \in Responses : LoginNext(i, response)
  \/ \E i \in 1..MaxInFlight, e \in HttpErrorResponses : LoginError(i, e)
  \/ Logout
  \/ LogoutRequest

Spec == Init /\ [][Next]_vars

\* the same program started in a browser whose storage holds nothing yet
EmptyStore == [auth_token |-> None, user_data |-> None, disabled |-> FALSE]

InitFresh == Init /\ localStorage = EmptyStore

SpecFresh == InitFresh /\ [][Next]_vars

(***************************************************************************)
(* storage.util called on a storage that fails                             *)
(*                                                                         *)
(* None of the seven functions has a try/catch, so what the browser raises *)
(* leaves the function as an exception: SecurityError on any access to     *)
(* window.localStorage when the browser denies it, SyntaxError from        *)
(* JSON.parse when the text under 'user_data' is not JSON.                 *)
(***************************************************************************)
Returned(v, ls) == [threw |-> FALSE, error |-> "", value |-> Some(v), localStorage |-> ls]

Thrown(name, ls) == [threw |-> TRUE, error |-> name, value |-> None, localStorage |-> ls]

saveToken_call(ls, token) ==
  IF ls.disabled THEN Thrown("SecurityError", ls) ELSE Returned(None, saveToken(ls, token))

getToken_call(ls) ==
  IF ls.disabled THEN Thrown("SecurityError", ls) ELSE Returned(getToken(ls), ls)

removeToken_call(ls) ==
  IF ls.disabled THEN Thrown("SecurityError", ls) ELSE Returned(None, removeToken(ls))

isAuthenticated_call(ls) ==
  IF getToken_call(ls).threw THEN getToken_call(ls) ELSE Returned(isAuthenticated(ls), ls)

saveUser_call(ls, u, n) ==
  IF ls.disabled THEN Thrown("SecurityError", ls) ELSE Returned(None, saveUser(ls, u, n))

getUser_call(ls) ==
  IF ls.disabled THEN Thrown("SecurityError", ls)
  ELSE IF Truthy(ls.user_data) /\ ~JSON_parse(Val(ls.user_data)).ok
       THEN Thrown("SyntaxError", ls)
  ELSE Returned(getUser(ls), ls)

removeUser_call(ls) ==
  IF ls.disabled THEN Thrown("SecurityError", ls) ELSE Returned(None, removeUser(ls))

\* texts under 'user_data' that are not JSON: free text, a cut-off object
Undecodable ==
  { <<"x">>,
    SubSeq(JSON_stringify([username |-> <<"a">>, nome |-> <<"A">>]), 1, 16) }

InitStorage ==
  /\ variant \in Variants
  /\ localStorage \in [auth_token : StoredTokens,
                       user_data : StoredUsers \cup {Some(d) : d \in Undecodable},
                       disabled : BOOLEAN]
  /\ location = NoLocation
  /\ username = <<>>
  /\ password = <<>>
  /\ isLoading = FALSE
  /\ errorMessage = ""
  /\ inflight = <<>>
  /\ guardLog = "none"
  /\ session = None
  /\ calls = [login |-> 0, post |-> 0]
  /\ last = [op |-> "init"]

\* one call of a storage.util function by the application
StoreCall(fn, result) ==
  /\ localStorage' = result.localStorage
  /\ last' = [op |-> "store", fn |-> fn, result |-> result, before |-> localStorage]
  /\ UNCHANGED <<calls, variant, location, username, password, isLoading, errorMessage,
                 inflight, guardLog, session>>

Call_saveToken(token) == StoreCall("saveToken", saveToken_call(localStorage, token))

Call_getToken == StoreCall("getToken", getToken_call(localStorage))

Call_removeToken == StoreCall("removeToken", removeToken_call(localStorage))

Call_isAuthenticated == StoreCall("isAuthenticated", isAuthenticated_call(localStorage))

Call_saveUser(p) == StoreCall("saveUser", saveUser_call(localStorage, p.username, p.nome))

Call_getUser == StoreCall("getUser", getUser_call(localStorage))

Call_removeUser == StoreCall("removeUser", removeUser_call(localStorage))

NextStorage ==
  \/ \E token \in Tokens : Call_saveToken(token)
  \/ Call_getToken
  \/ Call_removeToken
  \/ Call_isAuthenticated
  \/ \E p \in Profiles : Call_saveUser(p)
  \/ Call_getUser
  \/ Call_removeUser

SpecStorage == InitStorage /\ [][NextStorage]_vars

(***************************************************************************)
(* Observations shared by the properties                                   *)
(***************************************************************************)
\* the navigation attempt the last operation made, if any
LastNav ==
  IF last.op = "navigate" THEN Some(last.nav)
  ELSE IF last.op = "loginNext" THEN last.nav
  ELSE None

\* the request the last operation sent through the interceptor, if any
LastWire == IF last.op \in {"submit", "request"} THEN last.wire ELSE None

TokenPresent == IsSome(getToken(localStorage))

\* the fixed texts the login view holds for a failed login
FixedMessages ==
  {"Erro ao fazer login. Verifique suas credenciais.", "Erro ao fazer login"}

(***************************************************************************)
(* C1: after a successful login with response {username, nome, token},     *)
(* isAuthenticated() is true and getCurrentUser() is a profile with the     *)
(* response's username and nome, for every response.                        *)
(***************************************************************************)
C1_LoginAuthenticates ==
  last.op = "loginNext" =>
    /\ AuthService_isAuthenticated(localStorage)
    /\ LET user == AuthService_getCurrentUser(localStorage) IN
       /\ IsSome(user)
       /\ Prop(Val(user), KeyUsername) = Some(last.response.username)
       /\ Prop(Val(user), KeyNome) = Some(last.response.nome)

(***************************************************************************)
(* C2: a navigation attempt to a protected route is allowed exactly when    *)
(* isAuthenticated() is true at that attempt, whatever the guard decided    *)
(* on the attempt before.                                                   *)
(***************************************************************************)
C2_GuardFollowsCurrentAuth ==
  IsSome(LastNav) /\ Val(LastNav).guarded =>
    /\ Val(LastNav).allowed <=> AuthService_isAuthenticated(localStorage)
    /\ (location.view = "dashboard") <=> AuthService_isAuthenticated(localStorage)

\* a protected navigation is redirected although the previous one was allowed
C2_Witness ==
  /\ last.op = "navigate"
  /\ last.nav.guarded
  /\ ~last.nav.allowed
  /\ last.before = "allowed"
  /\ location.view = "login"

(***************************************************************************)
(* C3: a navigation attempt to a protected route made while the token is    *)
(* absent is cancelled and ends on the login view, with returnUrl equal to  *)
(* the requested path.                                                      *)
(***************************************************************************)
C3_RedirectCarriesReturnUrl ==
  IsSome(LastNav) /\ Val(LastNav).guarded /\ ~TokenPresent =>
    /\ ~Val(LastNav).allowed
    /\ location.view = "login"
    /\ location.url = LoginUrl
    /\ location.returnUrl = Some(Val(LastNav).requested)

\* /dashboard is asked for with no auth_token entry
C3_Witness ==
  /\ last.op = "navigate"
  /\ last.nav.requested = DashboardUrl
  /\ ~TokenPresent
  /\ location = [view |-> "login", url |-> LoginUrl, returnUrl |-> Some(DashboardUrl)]

(***************************************************************************)
(* C4: the request handed to the transport carries an Authorization header  *)
(* exactly when a token was in the Store at decoration time, and then its   *)
(* value is 'Bearer ' followed by the stored token.                         *)
(***************************************************************************)
C4_HeaderIffTokenStored ==
  IsSome(LastWire) =>
    LET handled == Val(LastWire).handled IN
    /\ HttpHeaders_has(handled.headers, "Authorization") <=> TokenPresent
    /\ TokenPresent =>
         HttpHeaders_get(handled.headers, "Authorization")
           = Some(Bearer \o Val(getToken(localStorage)))

(***************************************************************************)
(* C5: intercept leaves the request it was given as it was, with or without *)
(* a token; with a token a derived copy is forwarded.                       *)
(***************************************************************************)
C5_OriginalRequestUnchanged ==
  IsSome(LastWire) => Val(LastWire).req = last.request

\* a token was stored, so a copy with the header went out
C5_Witness ==
  /\ IsSome(LastWire)
  /\ Truthy(getToken(localStorage))
  /\ Val(LastWire).handled # last.request
  /\ HttpHeaders_has(Val(LastWire).handled.headers, "Authorization")
  /\ ~HttpHeaders_has(Val(LastWire).req.headers, "Authorization")

(***************************************************************************)
(* C6: after logout(), isAuthenticated() is false and getCurrentUser() is   *)
(* absent, whatever the Store held before.                                  *)
(***************************************************************************)
C6_LogoutClearsSession ==
  last.op = "logout" =>
    /\ ~AuthService_isAuthenticated(localStorage)
    /\ AuthService_getCurrentUser(localStorage) = None

\* logout from a Store that held only a profile
C6_Witness ==
  /\ last.op = "logout"
  /\ last.before.auth_token = None
  /\ last.before.user_data # None

(***************************************************************************)
(* C7: a failed login leaves the stored token and the stored profile as     *)
(* they were.                                                               *)
(***************************************************************************)
C7_FailedLoginKeepsStore ==
  last.op = "loginError" => localStorage = last.before

\* a login fails while a previous session is stored
C7_Witness ==
  /\ last.op = "loginError"
  /\ Truthy(localStorage.auth_token)
  /\ localStorage.user_data # None

(***************************************************************************)
(* C8: a submit with an empty identifier or an empty secret never invokes   *)
(* AuthService.login.                                                       *)
(***************************************************************************)
C8_EmptyFieldsNeverLogin ==
  last.op = "submit" /\ (last.username = <<>> \/ last.password = <<>>) =>
    ~last.loginInvoked

C10_UserOnlyWithToken ==
  ~TokenPresent => AuthService_getCurrentUser(localStorage) = None

(***************************************************************************)
(* C11: once a submitted login has succeeded with token t, the Store's      *)
(* token is t, a navigation to the dashboard has been made, and every       *)
(* request sent afterwards, until a logout or another successful login,     *)
(* carries 'Authorization: Bearer t'.                                       *)
(***************************************************************************)
C11_LoginEndToEnd ==
  /\ last.op = "loginNext" =>
       /\ getToken(localStorage) = Some(last.response.token)
       /\ IsSome(last.nav)
       /\ Val(last.nav).requested = DashboardUrl
  /\ IsSome(LastWire) /\ IsSome(session) =>
       HttpHeaders_get(Val(LastWire).handled.headers, "Authorization")
         = Some(Bearer \o Val(session))

(***************************************************************************)
(* C12: started from an empty Store, after any sequence of login attempts   *)
(* and logouts, a token is stored exactly when a profile is stored.         *)
(***************************************************************************)
C12_TokenIffProfile ==
  IsSome(getToken(localStorage)) <=> IsSome(localStorage.user_data)

\* a login attempt fails after an earlier one had stored a session
C12_Witness ==
  /\ last.op = "loginError"
  /\ IsSome(getToken(localStorage))
  /\ IsSome(getUser(localStorage))

(***************************************************************************)
(* C13: logout() called twice in a row leaves the Store as the first call   *)
(* left it, and that is the empty Store, whatever was stored before.        *)
(***************************************************************************)
C13_LogoutIdempotent ==
  last.op = "logout" /\ last.twice =>
    /\ localStorage = last.before
    /\ localStorage = EmptyStore

\* two logouts in a row, the first of which ended a stored session
C13_Witness ==
  /\ last.op = "logout"
  /\ last.twice
  /\ IsSome(last.first.auth_token)
  /\ IsSome(last.first.user_data)
  /\ localStorage = EmptyStore

(***************************************************************************)
(* C14: isAuthenticated() is true exactly when the Store's token read is    *)
(* not absent, for every stored token value, the empty string included.     *)
(***************************************************************************)
C14_AuthenticatedIffTokenRead ==
  AuthService_isAuthenticated(localStorage)
    <=> AuthService_getToken(localStorage) # None

(***************************************************************************)
(* C15: no storage.util function lets an exception out: with the storage    *)
(* disabled, or with an undecodable text under 'user_data', a read returns  *)
(* absent and a write or a removal returns without effect.                  *)
(***************************************************************************)
C15_StoreNeverThrows ==
  last.op = "store" =>
    /\ ~last.result.threw
    /\ last.before.disabled =>
         /\ localStorage = last.before
         /\ last.fn \in {"getToken", "getUser"} => last.result.value = Some(None)
    /\ last.fn = "getUser" /\ IsSome(last.before.user_data)
         /\ Val(last.before.user_data) \in Undecodable =>
           last.result.value = Some(None)

(***************************************************************************)
(* C16: when a submitted login is answered with success, the view that      *)
(* submitted it has its loading flag cleared and a navigation to the        *)
(* dashboard is issued.                                                     *)
(***************************************************************************)
C16_SuccessClearsLoadingAndNavigates ==
  last.op = "loginNext" =>
    /\ last.live => ~isLoading
    /\ IsSome(last.nav)
    /\ Val(last.nav).requested = DashboardUrl

(***************************************************************************)
(* C17: when a submitted login is rejected, the view that submitted it has  *)
(* its loading flag cleared and shows an error message, no navigation is    *)
(* made (the view stays the login view), and the rejection leaves the       *)
(* identifier and secret fields holding what they held.                     *)
(***************************************************************************)
C17_RejectionKeepsViewAndFields ==
  last.op = "loginError" =>
    /\ location = last.view.location
    /\ username = last.view.username
    /\ password = last.view.password
    /\ last.live =>
         /\ ~isLoading
         /\ errorMessage # ""
         /\ location.view = "login"

\* the mounted view is told of a rejection and still holds what it submitted
C17_Witness ==
  /\ last.op = "loginError"
  /\ last.live
  /\ last.cause.status = 401
  /\ username = last.submitted.username
  /\ password = last.submitted.password
  /\ password # <<>>
  /\ errorMessage = last.cause.message
  /\ location.view = "login"

\* does the text hay contain the text needle
Contains(hay, needle) ==
  \E i \in 1..(Len(hay) - Len(needle) + 1) : SubSeq(hay, i, i + Len(needle) - 1) = needle

(***************************************************************************)
(* C18: the Store never holds the secret: what is under 'auth_token' and    *)
(* under 'user_data' contains no secret the user can type, and a stored     *)
(* profile has the members username and nome and no other.                  *)
(***************************************************************************)
C18_SecretNeverStored ==
  /\ \A secret \in Secrets \ {<<>>} :
       /\ IsSome(localStorage.auth_token) =>
            ~Contains(Val(localStorage.auth_token), secret)
       /\ IsSome(localStorage.user_data) =>
            ~Contains(Val(localStorage.user_data), secret)
  /\ IsSome(getUser(localStorage)) =>
       {member[1] : member \in Val(getUser(localStorage))} = {KeyUsername, KeyNome}

\* a login has just stored a session while the form still holds the secret
C18_Witness ==
  /\ last.op = "loginNext"
  /\ last.live
  /\ password \in Secrets \ {<<>>}
  /\ IsSome(getToken(localStorage))
  /\ IsSome(getUser(localStorage))

\* the pending login requests whose submitting view is still mounted
LivePending == {i \in DOMAIN inflight : inflight[i].live}

C20_LastResponseWins ==
  last.op = "loginNext" =>
    /\ getToken(localStorage) = Some(last.response.token)
    /\ IsSome(getUser(localStorage))
    /\ Prop(Val(getUser(localStorage)), KeyUsername) = Some(last.response.username)
    /\ Prop(Val(getUser(localStorage)), KeyNome) = Some(last.response.nome)

\* two logins were in flight, the one sent second was answered first, the
\* other one right after it, with a different token and a different profile
C20_Witness ==
  /\ last.op = "loginNext"
  /\ last.pending = 1
  /\ IsSome(last.prev)
  /\ Val(last.prev).pending = 2
  /\ Val(last.prev).index = 2
  /\ Val(last.prev).response.token # last.response.token
  /\ Val(last.prev).response.username # last.response.username
  /\ getToken(localStorage) = Some(last.response.token)
  /\ Prop(Val(getUser(localStorage)), KeyUsername) = Some(last.response.username)

(***************************************************************************)
(* C21: a login request that is pending when its view is left is not        *)
(* cancelled: its successful answer still writes the answer's token and     *)
(* profile to the Store and still issues the navigation to the dashboard,   *)
(* whatever view is current when it arrives.                                *)
(***************************************************************************)
C21_PendingLoginNotCancelled ==
  last.op = "loginNext" /\ ~last.live =>
    /\ getToken(localStorage) = Some(last.response.token)
    /\ IsSome(getUser(localStorage))
    /\ Prop(Val(getUser(localStorage)), KeyNome) = Some(last.response.nome)
    /\ IsSome(last.nav)
    /\ Val(last.nav).requested = DashboardUrl

(***************************************************************************)
(* C23: on a successful login the token is in the Store before the login    *)
(* view navigates to the dashboard, so the guard of that navigation finds   *)
(* it and allows it: the navigation of a successful login ends on the       *)
(* dashboard, never back on the login view.                                 *)
(***************************************************************************)
C23_LoginNavigationAllowed ==
  last.op = "loginNext" /\ IsSome(last.nav) =>
    /\ getToken(localStorage) = Some(last.response.token)
    /\ Val(last.nav).guarded
    /\ Val(last.nav).allowed
    /\ location.view = "dashboard"

(***************************************************************************)
(* C24 as claimed: in every reachable state in which the current view is    *)
(* the dashboard a token is in the Store, also after a logout() called      *)
(* while the dashboard is displayed.                                        *)
(***************************************************************************)
C24_DashboardImpliesToken ==
  location.view = "dashboard" => TokenPresent

(***************************************************************************)
(* C24 as amended: every navigation that ends on the dashboard finds a      *)
(* non-empty token in the Store at that moment; logout() clears the Store   *)
(* and leaves the current view as it is.                                    *)
(***************************************************************************)
C24_DashboardEnteredWithToken ==
  /\ IsSome(LastNav) /\ location.view = "dashboard" =>
       /\ Val(LastNav).guarded
       /\ TokenPresent
       /\ Val(getToken(localStorage)) # <<>>
  /\ last.op = "logout" =>
       /\ location = last.location
       /\ ~TokenPresent

\* logout() is called while the dashboard is displayed
C24_Witness ==
  /\ last.op = "logout"
  /\ IsSome(last.before.auth_token)
  /\ location.view = "dashboard"
  /\ ~TokenPresent

C22_OnePostPerLogin ==
  calls.post = calls.login

====
